---- MODULE Spec2Model ----
(***************************************************************************)
(* concat_orgo.py: walks a source tree, selects the text/code files and    *)
(* concatenates them into one dump with a table of contents.               *)
(*                                                                         *)
(* Texts are sequences of one-character strings, paths are sequences of    *)
(* names, file contents are sequences of chunks.  A chunk is either raw    *)
(* bytes (k = "raw", data = the bytes) or one line written by write_concat *)
(* (k = "TOC", "ENTRY", "ENDTOC", "BEGIN", "END", "SEP"), which is UTF-8   *)
(* text of n bytes without any NUL.                                        *)
(***************************************************************************)
EXTENDS Integers, Sequences, FiniteSets, TLC

VARIABLES
  byteorder,  \* sys.byteorder of the interpreter: "little" or "big"
  fs,         \* the file system: path -> file record, for the paths that exist
  clock,      \* datetime.now(), in seconds
  pc,         \* position of the run: "idle", "walk", "write", "body", "done", "aborted"
  args,       \* argparse.Namespace of the current run
  base_dir,   \* root of the walk
  out_path,   \* resolved output path of the current run
  todo,       \* os.walk: stack of directories still to visit
  visited,    \* os.walk: directories already yielded
  considered, \* walk_select: the candidates handed to should_include_file so far
  selected,   \* walk_select: the list being built, then `files` of write_concat
  idx,        \* write_concat: index in `files` of the next file to write
  count,      \* write_concat: local `count`
  before,     \* what was at out_path when the run started (None when nothing)
  runs,       \* number of runs started
  probe,      \* Encoding Detector under test: the file handed to pick_encoding
  text,       \* is_probably_text(sample) for the probe, "n/a" before it ran or when unreadable
  enc,        \* pick_encoding(probe)
  incl,       \* should_include_file for the probe
  dpc         \* position of the detector run

vars == <<byteorder, fs, clock, pc, args, base_dir, out_path, todo, visited, considered,
          selected, idx, count, before, runs, probe, text, enc, incl, dpc>>

runVars == <<fs, clock, pc, args, out_path, todo, visited, considered,
             selected, idx, count, before, runs>>

probeVars == <<probe, text, enc, incl, dpc>>

-----------------------------------------------------------------------------
(* Bounds *)

MaxLen == 3        \* longest byte sample handed to the Encoding Detector
MaxRuns == 2       \* runs of the tool in one behaviour

-----------------------------------------------------------------------------
(* Generic helpers *)

None == "None"

Fail == <<-1>>      \* a decode that raised UnicodeDecodeError

Max(a, b) == IF a < b THEN b ELSE a

RECURSIVE Concat(_)
Concat(ss) == IF ss = <<>> THEN <<>> ELSE Head(ss) \o Concat(Tail(ss))

RECURSIVE Digits(_)
Digits(n) == IF n < 10 THEN 1 ELSE 1 + Digits(n \div 10)

Drop(s, k) == SubSeq(s, k + 1, Len(s))

Range(s) == {s[i] : i \in 1..Len(s)}

-----------------------------------------------------------------------------
(* Codecs of the Python runtime used by is_probably_text, pick_encoding    *)
(* and write_concat.  A decoder returns the code points, or Fail.          *)

Cont(b) == b >= 128 /\ b <= 191

\* Width of the well-formed UTF-8 sequence that starts s, 0 when there is none.
Utf8Width(s) ==
  LET n == Len(s)
      b1 == s[1]
      c(i) == n >= i /\ Cont(s[i])
  IN  IF b1 < 128 THEN 1
      ELSE IF b1 >= 194 /\ b1 <= 223 THEN (IF c(2) THEN 2 ELSE 0)
      ELSE IF b1 = 224 THEN (IF c(2) /\ s[2] >= 160 /\ c(3) THEN 3 ELSE 0)
      ELSE IF b1 = 237 THEN (IF c(2) /\ s[2] <= 159 /\ c(3) THEN 3 ELSE 0)
      ELSE IF b1 >= 225 /\ b1 <= 239 THEN (IF c(2) /\ c(3) THEN 3 ELSE 0)
      ELSE IF b1 = 240 THEN (IF c(2) /\ s[2] >= 144 /\ c(3) /\ c(4) THEN 4 ELSE 0)
      ELSE IF b1 >= 241 /\ b1 <= 243 THEN (IF c(2) /\ c(3) /\ c(4) THEN 4 ELSE 0)
      ELSE IF b1 = 244 THEN (IF c(2) /\ s[2] <= 143 /\ c(3) /\ c(4) THEN 4 ELSE 0)
      ELSE 0

Utf8Point(s, k) ==
  IF k = 1 THEN s[1]
  ELSE IF k = 2 THEN (s[1] - 192) * 64 + (s[2] - 128)
  ELSE IF k = 3 THEN (s[1] - 224) * 4096 + (s[2] - 128) * 64 + (s[3] - 128)
  ELSE (s[1] - 240) * 262144 + (s[2] - 128) * 4096 + (s[3] - 128) * 64 + (s[4] - 128)

RECURSIVE Utf8Decode(_)
Utf8Decode(s) ==
  IF s = <<>> THEN <<>>
  ELSE LET k == Utf8Width(s)
       IN  IF k = 0 THEN Fail
           ELSE LET rest == Utf8Decode(Drop(s, k))
                IN  IF rest = Fail THEN Fail ELSE <<Utf8Point(s, k)>> \o rest

BOM_UTF8 == <<239, 187, 191>>

Utf8SigDecode(s) ==
  IF Len(s) >= 3 /\ SubSeq(s, 1, 3) = BOM_UTF8 THEN Utf8Decode(Drop(s, 3)) ELSE Utf8Decode(s)

Unit(s, i, order) ==
  IF order = "little" THEN s[i] + 256 * s[i + 1] ELSE 256 * s[i] + s[i + 1]

HighSurrogate(u) == u >= 55296 /\ u <= 56319

LowSurrogate(u) == u >= 56320 /\ u <= 57343

RECURSIVE Utf16Units(_, _)
Utf16Units(s, order) ==
  IF s = <<>> THEN <<>>
  ELSE IF Len(s) = 1 THEN Fail                                   \* truncated data
  ELSE LET u == Unit(s, 1, order)
       IN  IF LowSurrogate(u) THEN Fail                          \* illegal encoding
           ELSE IF HighSurrogate(u)
             THEN IF Len(s) < 4 THEN Fail                        \* unexpected end of data
                  ELSE LET v == Unit(s, 3, order)
                       IN  IF ~LowSurrogate(v) THEN Fail         \* illegal UTF-16 surrogate
                           ELSE LET rest == Utf16Units(Drop(s, 4), order)
                                IN  IF rest = Fail THEN Fail
                                    ELSE <<65536 + (u - 55296) * 1024 + (v - 56320)>> \o rest
             ELSE LET rest == Utf16Units(Drop(s, 2), order)
                  IN  IF rest = Fail THEN Fail ELSE <<u>> \o rest

\* "utf-16": a byte order mark selects the order and is dropped, otherwise
\* the order is the one of the machine.
Utf16Decode(s) ==
  IF Len(s) >= 2 /\ SubSeq(s, 1, 2) = <<255, 254>> THEN Utf16Units(Drop(s, 2), "little")
  ELSE IF Len(s) >= 2 /\ SubSeq(s, 1, 2) = <<254, 255>> THEN Utf16Units(Drop(s, 2), "big")
  ELSE Utf16Units(s, byteorder)

CP1252_UNDEFINED == {129, 141, 143, 144, 157}

CP1252_HIGH ==
  (128 :> 8364) @@ (130 :> 8218) @@ (131 :> 402) @@ (132 :> 8222) @@ (133 :> 8230) @@
  (134 :> 8224) @@ (135 :> 8225) @@ (136 :> 710) @@ (137 :> 8240) @@ (138 :> 352) @@
  (139 :> 8249) @@ (140 :> 338) @@ (142 :> 381) @@ (145 :> 8216) @@ (146 :> 8217) @@
  (147 :> 8220) @@ (148 :> 8221) @@ (149 :> 8226) @@ (150 :> 8211) @@ (151 :> 8212) @@
  (152 :> 732) @@ (153 :> 8482) @@ (154 :> 353) @@ (155 :> 8250) @@ (156 :> 339) @@
  (158 :> 382) @@ (159 :> 376)

Cp1252Decode(s) ==
  IF \E i \in 1..Len(s) : s[i] \in CP1252_UNDEFINED THEN Fail
  ELSE [i \in 1..Len(s) |-> IF s[i] \in DOMAIN CP1252_HIGH THEN CP1252_HIGH[s[i]] ELSE s[i]]

Latin1Decode(s) == s

\* bytes.decode(enc) on raw bytes
DecodeBytes(e, s) ==
  IF e = "utf-8" THEN Utf8Decode(s)
  ELSE IF e = "utf-8-sig" THEN Utf8SigDecode(s)
  ELSE IF e = "utf-16" THEN Utf16Decode(s)
  ELSE IF e = "cp1252" THEN Cp1252Decode(s)
  ELSE Latin1Decode(s)

Utf8EncodePoint(c) ==
  IF c < 128 THEN <<c>>
  ELSE IF c < 2048 THEN <<192 + c \div 64, 128 + (c % 64)>>
  ELSE IF c < 65536 THEN <<224 + c \div 4096, 128 + ((c \div 64) % 64), 128 + (c % 64)>>
  ELSE <<240 + c \div 262144, 128 + ((c \div 4096) % 64), 128 + ((c \div 64) % 64), 128 + (c % 64)>>

Utf8Encode(cs) == Concat([i \in 1..Len(cs) |-> Utf8EncodePoint(cs[i])])

\* Incremental "utf-16" decoder on a stream without byte order mark, first
\* call (not final): the number of bytes consumed, or -1 when it raised
\* UnicodeDecodeError.
RECURSIVE Utf16Scan(_, _)
Utf16Scan(s, order) ==
  IF Len(s) < 2 THEN 0
  ELSE LET u == Unit(s, 1, order)
       IN  IF LowSurrogate(u) THEN -1
           ELSE IF HighSurrogate(u)
             THEN IF Len(s) < 4 THEN 0
                  ELSE IF ~LowSurrogate(Unit(s, 3, order)) THEN -1
                  ELSE LET r == Utf16Scan(Drop(s, 4), order) IN IF r = -1 THEN -1 ELSE 4 + r
             ELSE LET r == Utf16Scan(Drop(s, 2), order) IN IF r = -1 THEN -1 ELSE 2 + r

NoBOM == <<-2>>     \* UnicodeError("UTF-16 stream does not start with BOM")

\* The decoder behind open(..., encoding=e, errors="strict") on a file read
\* in one chunk: as bytes.decode, except that "utf-16" demands a byte order
\* mark and raises UnicodeError, not UnicodeDecodeError, without one, and
\* "utf-8-sig" yields nothing for a file that is a proper prefix of the mark.
StreamDecode(e, s) ==
  IF e = "utf-8-sig" /\ Len(s) < 3 /\ s = SubSeq(BOM_UTF8, 1, Len(s)) THEN <<>>
  ELSE IF e = "utf-16" /\ s # <<>>
     /\ ~(Len(s) >= 2 /\ SubSeq(s, 1, 2) \in {<<255, 254>>, <<254, 255>>})
    THEN IF Utf16Scan(s, byteorder) >= 2 THEN NoBOM ELSE Fail
    ELSE DecodeBytes(e, s)

\* Text-mode reading with newline=None: "\r\n" and "\r" become "\n".
RECURSIVE UniversalNewlines(_)
UniversalNewlines(cs) ==
  IF cs = <<>> THEN <<>>
  ELSE IF cs[1] = 13
    THEN <<10>> \o UniversalNewlines(IF Len(cs) >= 2 /\ cs[2] = 10 THEN Drop(cs, 2) ELSE Tail(cs))
    ELSE <<cs[1]>> \o UniversalNewlines(Tail(cs))

-----------------------------------------------------------------------------
(* Texts and paths *)

UPPER == <<"A","B","C","D","E","F","G","H","I","J","K","L","M",
           "N","O","P","Q","R","S","T","U","V","W","X","Y","Z">>

LOWER == <<"a","b","c","d","e","f","g","h","i","j","k","l","m",
           "n","o","p","q","r","s","t","u","v","w","x","y","z">>

LowerChar(c) ==
  IF \E i \in 1..26 : UPPER[i] = c THEN LOWER[CHOOSE i \in 1..26 : UPPER[i] = c] ELSE c

\* str.lower()
Lower(s) == [i \in 1..Len(s) |-> LowerChar(s[i])]

\* str.replace(a, b) for one-character a and b
Replace(s, a, b) == [i \in 1..Len(s) |-> IF s[i] = a THEN b ELSE s[i]]

\* str.strip()
RECURSIVE LStrip(_)
LStrip(s) == IF s # <<>> /\ Head(s) = " " THEN LStrip(Tail(s)) ELSE s

RECURSIVE RStrip(_)
RStrip(s) == IF s # <<>> /\ s[Len(s)] = " " THEN RStrip(SubSeq(s, 1, Len(s) - 1)) ELSE s

Strip(s) == RStrip(LStrip(s))

\* str.split(sep) for a one-character sep
RECURSIVE Split(_, _)
Split(s, sep) ==
  IF \A i \in 1..Len(s) : s[i] # sep THEN <<s>>
  ELSE LET i == CHOOSE j \in 1..Len(s) : s[j] = sep /\ \A k \in 1..(j - 1) : s[k] # sep
       IN  <<SubSeq(s, 1, i - 1)>> \o Split(Drop(s, i), sep)

\* sep.join(parts)
RECURSIVE Join(_, _)
Join(parts, sep) ==
  IF parts = <<>> THEN <<>>
  ELSE IF Len(parts) = 1 THEN parts[1]
  ELSE parts[1] \o <<sep>> \o Join(Tail(parts), sep)

\* Lexicographic order of two texts by a rank of their characters.
CHARS == <<" ", "!", "*", ",", "-", ".", "/", "0", "1", "2", "3", "4", "5", "6", "7", "8", "9",
           "?">> \o UPPER \o <<"[", "\\", "]", "_">> \o LOWER

Rank(c) == CHOOSE i \in 1..Len(CHARS) : CHARS[i] = c

RECURSIVE TextLess(_, _)
TextLess(a, b) ==
  IF b = <<>> THEN FALSE
  ELSE IF a = <<>> THEN TRUE
  ELSE IF a[1] = b[1] THEN TextLess(Tail(a), Tail(b))
  ELSE Rank(a[1]) < Rank(b[1])

\* PurePath.name of an absolute path (a sequence of names)
Name(p) == p[Len(p)]

\* PurePath.suffix
Suffix(p) ==
  LET name == Name(p)
      dots == {i \in 1..Len(name) : name[i] = "."}
  IN  IF dots = {} THEN <<>>
      ELSE LET i == CHOOSE j \in dots : \A k \in dots : k <= j
           IN  IF 1 < i /\ i < Len(name) THEN SubSeq(name, i, Len(name)) ELSE <<>>

\* str(path) for an absolute path
PathStr(p) == <<"/">> \o Join(p, "/")

IsPrefix(a, b) == Len(a) <= Len(b) /\ SubSeq(b, 1, Len(a)) = a

DEFAULT_EXTS ==
  {
    <<".","b","a","s","h">>, <<".","b","a","t">>, <<".","c">>, <<".","c","c">>,
    <<".","c","f","g">>, <<".","c","j","s">>, <<".","c","o","n","f">>, <<".","c","p","p">>,
    <<".","c","s">>, <<".","c","s","s">>, <<".","e","n","v">>, <<".","f","i","s","h">>,
    <<".","g","o">>, <<".","g","q","l">>, <<".","g","r","a","d","l","e">>,
    <<".","g","r","a","p","h","q","l">>, <<".","h">>, <<".","h","p","p">>,
    <<".","h","t","m">>, <<".","h","t","m","l">>, <<".","i","n","i">>,
    <<".","j","a","v","a">>, <<".","j","s">>, <<".","j","s","o","n">>, <<".","j","s","x">>,
    <<".","k","t">>, <<".","l","e","s","s">>, <<".","l","u","a">>,
    <<".","m","a","r","k","d","o","w","n">>, <<".","m","d">>, <<".","m","j","s">>,
    <<".","n","d","j","s","o","n">>, <<".","p","h","p">>, <<".","p","l">>,
    <<".","p","r","o","p","e","r","t","i","e","s">>, <<".","p","s","1">>, <<".","p","y">>,
    <<".","p","y","i">>, <<".","r">>, <<".","r","b">>, <<".","r","s">>,
    <<".","s","c","s","s">>, <<".","s","h">>, <<".","s","q","l">>, <<".","s","v","g">>,
    <<".","s","w","i","f","t">>, <<".","t","o","m","l">>, <<".","t","s">>,
    <<".","t","s","x">>, <<".","t","x">>, <<".","t","x","t">>, <<".","x","m","l">>,
    <<".","y","a","m","l">>, <<".","y","m","l">>, <<".","z","s","h">>
  }

NAMES_WITHOUT_EXT ==
  {
    <<".","a","l","l","-","c","o","n","t","r","i","b","u","t","o","r","s","r","c">>,
    <<".","e","d","i","t","o","r","c","o","n","f","i","g">>,
    <<".","e","s","l","i","n","t","r","c">>,
    <<".","g","i","t","a","t","t","r","i","b","u","t","e","s">>,
    <<".","g","i","t","i","g","n","o","r","e">>,
    <<".","p","r","e","t","t","i","e","r","i","g","n","o","r","e">>,
    <<".","p","r","e","t","t","i","e","r","r","c">>,
    <<".","r","e","l","e","a","s","e","r","c">>,
    <<"C","M","a","k","e","L","i","s","t","s",".","t","x","t">>,
    <<"D","o","c","k","e","r","f","i","l","e">>, <<"L","I","C","E","N","S","E">>,
    <<"M","a","k","e","f","i","l","e">>,
    <<"e","s","l","i","n","t",".","c","o","n","f","i","g",".","j","s">>,
    <<"e","s","l","i","n","t",".","c","o","n","f","i","g",".","m","j","s">>,
    <<"p","a","c","k","a","g","e","-","l","o","c","k",".","j","s","o","n">>,
    <<"p","a","c","k","a","g","e",".","j","s","o","n">>,
    <<"p","n","p","m","-","l","o","c","k",".","y","a","m","l">>,
    <<"p","o","s","t","c","s","s",".","c","o","n","f","i","g",".","j","s">>,
    <<"p","r","e","t","t","i","e","r",".","c","o","n","f","i","g",".","j","s">>,
    <<"r","o","u","t","e","s",".","j","s","o","n">>,
    <<"t","s","c","o","n","f","i","g",".","j","s","o","n">>,
    <<"y","a","r","n",".","l","o","c","k">>
  }

DEFAULT_EXCLUDE_DIRS ==
  {
    <<".","c","a","c","h","e">>, <<".","g","i","t">>, <<".","g","i","t","h","u","b">>,
    <<".","h","g">>, <<".","n","e","x","t">>, <<".","s","v","n">>, <<".","v","e","n","v">>,
    <<"D","o","c","u","m","e","n","t","a","t","i","o","n">>,
    <<"_","_","p","y","c","a","c","h","e","_","_">>, <<"b","i","n">>,
    <<"b","u","i","l","d">>, <<"c","o","v","e","r","a","g","e">>, <<"d","i","s","t">>,
    <<"n","o","d","e","_","m","o","d","u","l","e","s">>, <<"o","b","j">>, <<"o","u","t">>,
    <<"t","a","r","g","e","t">>, <<"v","e","n","v">>
  }

BINARY_EXTS ==
  {
    <<".","7","z">>, <<".","b","z","2">>, <<".","g","i","f">>, <<".","g","z">>,
    <<".","i","c","o">>, <<".","j","p","e","g">>, <<".","j","p","g">>, <<".","p","d","f">>,
    <<".","p","n","g">>, <<".","r","a","r">>, <<".","t","t","f">>, <<".","w","e","b","p">>,
    <<".","w","o","f","f">>, <<".","w","o","f","f","2">>, <<".","x","z">>,
    <<".","z","i","p">>
  }

OUT_EXCLUDES ==
  <<
    <<"C","o","d","e","_","*",".","t","x","t">>
  >>

ENCODINGS == <<"utf-8", "utf-8-sig", "utf-16", "cp1252", "latin-1">>

SAMPLE_SIZE == 32768

DEFAULT_MAX_SIZE == 2000000

-----------------------------------------------------------------------------
(* fnmatch.fnmatch on a POSIX system (os.path.normcase is the identity).   *)
(* The patterns explored hold no "-" inside brackets, so a bracket is a    *)
(* plain set of characters, negated by a leading "!".                      *)

\* Index of the "]" that closes the bracket opened at p[1], 0 when none.
ClassEnd(p) ==
  LET n == Len(p)
      j1 == IF 2 <= n /\ p[2] = "!" THEN 3 ELSE 2
      j2 == IF j1 <= n /\ p[j1] = "]" THEN j1 + 1 ELSE j1
      closing == {j \in j2..n : p[j] = "]"}
  IN  IF closing = {} THEN 0 ELSE CHOOSE j \in closing : \A k \in closing : j <= k

RECURSIVE fnmatch(_, _)
fnmatch(s, p) ==
  IF p = <<>> THEN s = <<>>
  ELSE IF p[1] = "*" THEN fnmatch(s, Tail(p)) \/ (s # <<>> /\ fnmatch(Tail(s), p))
  ELSE IF p[1] = "?" THEN s # <<>> /\ fnmatch(Tail(s), Tail(p))
  ELSE IF p[1] = "[" /\ ClassEnd(p) > 0
    THEN LET j == ClassEnd(p)
             stuff == SubSeq(p, 2, j - 1)
             neg == stuff[1] = "!"
             members == Range(IF neg THEN Tail(stuff) ELSE stuff)
         IN  /\ s # <<>>
             /\ (s[1] \in members) # neg
             /\ fnmatch(Tail(s), Drop(p, j))
  ELSE s # <<>> /\ s[1] = p[1] /\ fnmatch(Tail(s), Tail(p))

-----------------------------------------------------------------------------
(* File contents *)

Raw(bytes) == [k |-> "raw", rel |-> <<>>, num |-> 0, n |-> Len(bytes), data |-> bytes]

\* A line of kind k that names `rel` and the number `num`, n bytes long
Line(kind, rel, num, n) == [k |-> kind, rel |-> rel, num |-> num, n |-> n, data |-> <<>>]

\* n bytes of text copied from a dump into the body of another
Text(n) == Line("text", <<>>, 0, n)

\* The content of an ordinary file holding these bytes.
Bytes(bytes) == IF bytes = <<>> THEN <<>> ELSE <<Raw(bytes)>>

DecodeError == <<Line("UnicodeDecodeError", <<>>, 0, 0)>>

BOMError == <<Line("UnicodeError", <<>>, 0, 0)>>

RECURSIVE Size(_)
Size(content) == IF content = <<>> THEN 0 ELSE Head(content).n + Size(Tail(content))

Plain(content) == \A i \in 1..Len(content) : content[i].k = "raw"

BytesOf(content) == Concat([i \in 1..Len(content) |-> content[i].data])

\* f.read(n) in binary mode: the first n bytes
RECURSIVE Read(_, _)
Read(content, n) ==
  IF content = <<>> \/ n = 0 THEN <<>>
  ELSE LET c == Head(content)
       IN  IF c.n <= n THEN <<c>> \o Read(Tail(content), n - c.n)
           ELSE IF c.k = "raw" THEN <<Raw(SubSeq(c.data, 1, n))>>
           ELSE <<Line(c.k, c.rel, c.num, n)>>

\* bytes.decode(e) succeeds.  A content that holds lines of a dump is UTF-8
\* text, which "utf-8" (first of ENCODINGS) decodes: "utf-16" never sees one.
Decodes(e, content) ==
  IF Plain(content) THEN DecodeBytes(e, BytesOf(content)) # Fail
  ELSE /\ e # "utf-16"
       /\ \A i \in 1..Len(content) : DecodeBytes(e, content[i].data) # Fail

\* The text read from a file opened with encoding e, written back as UTF-8;
\* DecodeError or BOMError when reading raised.
Transcode(e, content) ==
  IF Plain(content)
    THEN LET r == StreamDecode(e, BytesOf(content))
         IN  IF r = Fail THEN DecodeError
             ELSE IF r = NoBOM THEN BOMError
             ELSE Bytes(Utf8Encode(UniversalNewlines(r)))
    ELSE IF ~Decodes(e, content) THEN DecodeError
    ELSE [i \in 1..Len(content) |->
            IF content[i].k = "raw"
              THEN Raw(Utf8Encode(UniversalNewlines(DecodeBytes(e, content[i].data))))
              ELSE Text(content[i].n)]

-----------------------------------------------------------------------------
(* Encoding Detector *)

CtrlCount(content) ==
  LET b == BytesOf(content)
  IN  Cardinality({i \in 1..Len(b) : b[i] < 32 /\ b[i] \notin {9, 10, 13}})

\* is_probably_text without the test of line 137
is_probably_text_NoNulTest(sample) ==
  IF Size(sample) = 0 THEN TRUE
  ELSE IF Decodes("utf-8", sample) THEN TRUE
  ELSE CtrlCount(sample) * 100 < Max(1, Size(sample))

is_probably_text(sample) ==
  IF Size(sample) = 0 THEN TRUE
  ELSE IF \E i \in 1..Len(sample) : \E j \in 1..Len(sample[i].data) : sample[i].data[j] = 0
    THEN FALSE
  ELSE IF Decodes("utf-8", sample) THEN TRUE
  ELSE CtrlCount(sample) * 100 < Max(1, Size(sample))

\* lines 155-161: the first of encs, from the i-th on, that decodes the sample
RECURSIVE FirstOf(_, _, _)
FirstOf(encs, sample, i) ==
  IF i > Len(encs) THEN "latin-1"
  ELSE IF Decodes(encs[i], sample) THEN encs[i]
  ELSE FirstOf(encs, sample, i + 1)

\* the loop of line 155 over a tuple that lists "utf-8-sig" before "utf-8"
FirstEncoding_SigFirst(sample, i) ==
  FirstOf(<<"utf-8-sig", "utf-8", "utf-16", "cp1252", "latin-1">>, sample, i)

\* the loop of line 155 over a tuple that lists "cp1252" before "utf-16"
FirstEncoding_Cp1252First(sample, i) ==
  FirstOf(<<"utf-8", "utf-8-sig", "cp1252", "utf-16", "latin-1">>, sample, i)

FirstEncoding(sample, i) == FirstOf(ENCODINGS, sample, i)

-----------------------------------------------------------------------------
(* File system.  f maps each existing absolute path to a record:           *)
(*   type     "dir", "file" or "link" (a symbolic link to `target`)        *)
(*   content  the chunks of a regular file                                 *)
(*   canOpen  open() for reading succeeds                                  *)
(*   vanishes stat() raises after is_file() succeeded (the file is removed *)
(*            in between)                                                  *)

Dir == [type |-> "dir", content |-> <<>>, canOpen |-> FALSE, vanishes |-> FALSE, target |-> <<>>]

File(content) ==
  [type |-> "file", content |-> content, canOpen |-> TRUE, vanishes |-> FALSE, target |-> <<>>]

Link(target) ==
  [type |-> "link", content |-> <<>>, canOpen |-> FALSE, vanishes |-> FALSE, target |-> target]

ResolveFail == << <<>> >>      \* Path.resolve() raised (symbolic link loop)

\* Path.resolve(): follows the symbolic links, at most 40 of them (ELOOP
\* beyond); a path that does not exist resolves to itself.
RECURSIVE ResolveN(_, _, _)
ResolveN(f, p, n) ==
  IF p \in DOMAIN f /\ f[p].type = "link"
    THEN IF n = 0 THEN ResolveFail ELSE ResolveN(f, f[p].target, n - 1)
    ELSE p

resolve(f, p) == ResolveN(f, p, 40)

\* Path.is_file(): follows the links, False on a loop or a dangling link
is_file(f, p) ==
  LET r == resolve(f, p) IN r # ResolveFail /\ r \in DOMAIN f /\ f[r].type = "file"

is_dir(f, p) ==
  LET r == resolve(f, p) IN r # ResolveFail /\ r \in DOMAIN f /\ f[r].type = "dir"

\* open(p, "rb") / open(p, "r") succeeds
CanOpen(f, p) == is_file(f, p) /\ f[resolve(f, p)].canOpen

ContentOf(f, p) == f[resolve(f, p)].content

pick_encoding(f, path) ==
  IF ~CanOpen(f, path) THEN None
  ELSE LET sample == Read(ContentOf(f, path), SAMPLE_SIZE)
       IN  IF ~is_probably_text(sample) THEN None ELSE FirstEncoding(sample, 1)

-----------------------------------------------------------------------------
(* Selector *)

normalize_exts(exts_csv) ==
  IF exts_csv = None \/ exts_csv = <<>> THEN DEFAULT_EXTS
  ELSE LET raw == Split(exts_csv, ",")
           parts == {Lower(Strip(raw[i])) : i \in {j \in 1..Len(raw) : Strip(raw[j]) # <<>>}}
       IN  {IF e[1] = "." THEN e ELSE <<".">> \o e : e \in parts}

relpath(base, p) ==
  LET r == IF IsPrefix(base, p) THEN Join(Drop(p, Len(base)), "/") ELSE PathStr(p)
  IN  Replace(r, "\\", "/")

\* the comparison of lines 189 and 239 made on the paths as given
IsOutput_Unresolved(f, fp, out) == fp = out

\* lines 188-192 and again 238-242: fp.resolve() == out_path.resolve(), and
\* False when either raised
IsOutput(f, fp, out) ==
  /\ resolve(f, fp) # ResolveFail
  /\ resolve(f, out) # ResolveFail
  /\ resolve(f, fp) = resolve(f, out)

\* should_include_file with the test of line 215 moved before the globs
should_include_file_ExtFirst(f, base, file_path, allowed_exts, include_globs, exclude_globs, max_size, out) ==
  LET rel == relpath(base, file_path)
  IN  IF ~is_file(f, file_path) THEN FALSE
      ELSE IF Lower(Suffix(file_path)) \in BINARY_EXTS THEN FALSE
      ELSE IF IsOutput(f, file_path, out) THEN FALSE
      ELSE IF f[resolve(f, file_path)].vanishes THEN FALSE
      ELSE IF Size(ContentOf(f, file_path)) > max_size THEN FALSE
      ELSE IF Lower(Suffix(file_path)) \in allowed_exts \/ Name(file_path) \in NAMES_WITHOUT_EXT
        THEN TRUE
      ELSE IF \E i \in 1..Len(exclude_globs) : fnmatch(rel, exclude_globs[i]) THEN FALSE
      ELSE IF include_globs # <<>> /\ ~\E i \in 1..Len(include_globs) : fnmatch(rel, include_globs[i])
        THEN FALSE
      ELSE pick_encoding(f, file_path) # None

\* should_include_file with line 196 comparing to the default of --max-size
should_include_file_DefaultSize(f, base, file_path, allowed_exts, include_globs, exclude_globs, max_size, out) ==
  LET rel == relpath(base, file_path)
  IN  IF ~is_file(f, file_path) THEN FALSE
      ELSE IF Lower(Suffix(file_path)) \in BINARY_EXTS THEN FALSE
      ELSE IF IsOutput(f, file_path, out) THEN FALSE
      ELSE IF f[resolve(f, file_path)].vanishes THEN FALSE
      ELSE IF Size(ContentOf(f, file_path)) > DEFAULT_MAX_SIZE THEN FALSE
      ELSE IF \E i \in 1..Len(exclude_globs) : fnmatch(rel, exclude_globs[i]) THEN FALSE
      ELSE IF include_globs # <<>> /\ ~\E i \in 1..Len(include_globs) : fnmatch(rel, include_globs[i])
        THEN FALSE
      ELSE IF Lower(Suffix(file_path)) \in allowed_exts \/ Name(file_path) \in NAMES_WITHOUT_EXT
        THEN TRUE
      ELSE pick_encoding(f, file_path) # None

should_include_file(f, base, file_path, allowed_exts, include_globs, exclude_globs, max_size, out) ==
  LET rel == relpath(base, file_path)
  IN  IF ~is_file(f, file_path) THEN FALSE
      ELSE IF Lower(Suffix(file_path)) \in BINARY_EXTS THEN FALSE
      ELSE IF IsOutput(f, file_path, out) THEN FALSE
      ELSE IF f[resolve(f, file_path)].vanishes THEN FALSE
      ELSE IF Size(ContentOf(f, file_path)) > max_size THEN FALSE
      ELSE IF \E i \in 1..Len(exclude_globs) : fnmatch(rel, exclude_globs[i]) THEN FALSE
      ELSE IF include_globs # <<>>
              /\ ~\E i \in 1..Len(include_globs) : fnmatch(rel, include_globs[i]) THEN FALSE
      ELSE IF Lower(Suffix(file_path)) \in allowed_exts \/ Name(file_path) \in NAMES_WITHOUT_EXT
        THEN TRUE
      ELSE pick_encoding(f, file_path) # None

\* os.scandir: the entries of directory d, here in the order of their names
Children(f, d) == {p \in DOMAIN f : Len(p) = Len(d) + 1 /\ IsPrefix(d, p)}

RECURSIVE Sorted(_)
Sorted(S) ==
  IF S = {} THEN <<>>
  ELSE LET m == CHOOSE p \in S : \A q \in S : q = p \/ TextLess(Name(p), Name(q))
       IN  <<m>> \o Sorted(S \ {m})

\* (dirs, files) of one os.walk step: an entry is a directory when is_dir()
\* says so, and a file otherwise
WalkDirs(f, d) == Sorted({p \in Children(f, d) : is_dir(f, p)})

WalkFiles(f, d) == Sorted({p \in Children(f, d) : ~is_dir(f, p)})

\* walk_select, lines 236-242: the candidates of one directory that are not
\* the output file
Considered(f, d, out) == SelectSeq(WalkFiles(f, d), LAMBDA fp : ~IsOutput(f, fp, out))

\* selected.sort(key=lambda p: relpath(base_dir, p).lower()): a stable sort
SortKey(base, p) == Lower(relpath(base, p))

RECURSIVE SortSelected(_, _)
SortSelected(base, s) ==
  IF s = <<>> THEN <<>>
  ELSE LET rest == SortSelected(base, SubSeq(s, 1, Len(s) - 1))
           x == s[Len(s)]
           lo == SelectSeq(rest, LAMBDA y : ~TextLess(SortKey(base, x), SortKey(base, y)))
           hi == SelectSeq(rest, LAMBDA y : TextLess(SortKey(base, x), SortKey(base, y)))
       IN  lo \o <<x>> \o hi

-----------------------------------------------------------------------------
(* The trees and command lines explored *)

W == <<"w">>

APP == <<"a","p","p">>

BIN == <<"b","i","n">>

SUB == <<"s","u","b">>

A_TS == <<"a",".","t","s">>

B_PNG == <<"b",".","p","n","g">>

C_TS == <<"c",".","t","s">>

E_TS == <<"e",".","T","S">>

F_TS == <<"f",".","t","s">>

NOTES == <<"n","o","t","e","s">>

LN_TS == <<"l","n",".","t","s">>

LP == <<"l","p">>

D_TXT == <<"d",".","t","x","t">>

LICENSE == <<"L","I","C","E","N","S","E">>

PlainFile == File(Bytes(<<65, 10>>))

\* /w with a.ts, b.png, notes, bin/c.ts, app/e.TS, app/bin/f.ts,
\* ln.ts -> /w/d.txt and the self-referencing link lp
Tree0 ==
  (<<W>> :> Dir) @@ (<<W, BIN>> :> Dir) @@ (<<W, APP>> :> Dir) @@ (<<W, APP, BIN>> :> Dir) @@
  (<<W, A_TS>> :> PlainFile) @@ (<<W, B_PNG>> :> PlainFile) @@ (<<W, NOTES>> :> PlainFile) @@
  (<<W, BIN, C_TS>> :> PlainFile) @@ (<<W, APP, E_TS>> :> PlainFile) @@
  (<<W, APP, BIN, F_TS>> :> PlainFile) @@
  (<<W, LN_TS>> :> Link(<<W, D_TXT>>)) @@ (<<W, LP>> :> Link(<<W, LP>>))

RegularFiles == {p \in DOMAIN Tree0 : Tree0[p].type = "file"}

\* What one file of the tree may be instead of a two-byte ASCII file
Variants ==
  { File(<<>>),                                    \* empty
    File(Bytes(<<65, 65, 10>>)),                   \* three bytes
    File(Bytes(<<65, 0>>)),                        \* holds a NUL
    File(Bytes(<<1, 255>>)),                       \* control bytes, not UTF-8
    File(Bytes(<<233>>)),                          \* cp1252 text, odd length
    File(Bytes(<<233, 116>>)),                     \* cp1252 text, even length
    [PlainFile EXCEPT !.canOpen = FALSE],          \* permission denied on open
    [PlainFile EXCEPT !.vanishes = TRUE] }         \* removed during the walk

Trees == {Tree0} \cup {[Tree0 EXCEPT ![p] = v] : p \in RegularFiles, v \in Variants}

Roots == {<<W>>, <<W, APP>>, <<W, BIN>>}

Defaults ==
  [out |-> None, ext |-> None, include |-> <<>>, exclude |-> <<>>,
   max_size |-> DEFAULT_MAX_SIZE, no_headers |-> FALSE]

ARGV ==
  { Defaults,
    [Defaults EXCEPT !.out = <<D_TXT>>],
    [Defaults EXCEPT !.out = <<D_TXT>>, !.no_headers = TRUE],
    [Defaults EXCEPT !.out = <<D_TXT>>, !.include = << <<"a","p","p","/","*">>, <<"*",".","m","d">> >>],
    [Defaults EXCEPT !.out = <<D_TXT>>, !.max_size = 2],
    [Defaults EXCEPT !.out = <<A_TS, D_TXT>>],
    [Defaults EXCEPT !.out = <<APP>>],
    [Defaults EXCEPT !.out = <<SUB, D_TXT>>, !.ext = <<"m","d",","," ",".","T","S">>,
                     !.exclude = << <<"*","e",".","T","S">> >>] }

Absent == [type |-> "absent", content |-> <<>>, canOpen |-> FALSE, vanishes |-> FALSE,
           target |-> <<>>]

StatOf(f, p) == IF p \in DOMAIN f THEN f[p] ELSE Absent

Idle ==
  /\ clock = 0 /\ pc = "idle" /\ args = Defaults /\ out_path = <<>> /\ todo = <<>>
  /\ visited = <<>> /\ considered = <<>> /\ selected = <<>> /\ idx = 0 /\ count = 0
  /\ before = Absent /\ runs = 0

NoProbe ==
  /\ probe = [name |-> NOTES, bytes |-> <<>>, readable |-> TRUE]
  /\ text = "n/a" /\ enc = "n/a" /\ incl = "n/a" /\ dpc = "off"

Init ==
  /\ byteorder = "little"
  /\ fs \in Trees
  /\ base_dir \in Roots
  /\ Idle
  /\ NoProbe

-----------------------------------------------------------------------------
(* run_single_output *)

\* strftime("%Y%m%d_%H%M%S") of the clock, counted from 2026-11-03 00:00:00
Stamp(t) == <<"2","0","2","6","1","1","0","3","_","0","0","0","0","0">> \o <<CHARS[8 + t]>>

DefaultName(base, t) ==
  <<"C","o","d","e","_">> \o Name(base) \o <<"_">> \o Stamp(t) \o <<".","t","x","t">>

\* lines 309-312
allowed_exts == normalize_exts(args.ext)

include_globs == args.include

exclude_globs == args.exclude \o OUT_EXCLUDES

\* lines 302-312: the output path and the rule set; walk_select starts
StartRun ==
  /\ pc \in {"idle", "done", "aborted"}
  /\ runs < MaxRuns
  /\ runs' = runs + 1
  /\ \E a \in ARGV, t \in {clock, clock + 1} :
       LET rel == IF a.out # None THEN a.out ELSE <<DefaultName(base_dir, t)>>
           out == resolve(fs, base_dir \o rel)
       IN  /\ args' = a
           /\ clock' = IF a.out # None THEN clock ELSE t
           /\ a.out # None => t = clock
           /\ out_path' = out
           /\ before' = StatOf(fs, out)
           /\ pc' = IF out = ResolveFail THEN "aborted" ELSE "walk"
           /\ todo' = IF is_dir(fs, base_dir) THEN <<base_dir>> ELSE <<>>
  /\ visited' = <<>>
  /\ considered' = <<>>
  /\ selected' = <<>>
  /\ idx' = 0
  /\ count' = 0
  /\ UNCHANGED <<byteorder, fs, base_dir, probeVars>>

-----------------------------------------------------------------------------
(* walk_select *)

\* line 233 keeping every directory
Pruned_Unfiltered(dirs) == dirs

\* line 233: dirs[:] = [d for d in dirs if d not in DEFAULT_EXCLUDE_DIRS]
Pruned(dirs) == SelectSeq(dirs, LAMBDA d : Name(d) \notin DEFAULT_EXCLUDE_DIRS)

\* os.walk(followlinks=False) descends into the directories left that are
\* not symbolic links
Descend(f, dirs) == SelectSeq(dirs, LAMBDA d : f[d].type = "dir")

\* lines 243-246
Included(f, base, cands, out) ==
  SelectSeq(cands, LAMBDA fp : should_include_file(f, base, fp, allowed_exts, include_globs,
                                                   exclude_globs, args.max_size, out))

\* one iteration of the loop of line 231
WalkStep ==
  /\ pc = "walk"
  /\ todo # <<>>
  /\ LET d == Head(todo)
         cands == Considered(fs, d, out_path)
     IN  /\ todo' = Descend(fs, Pruned(WalkDirs(fs, d))) \o Tail(todo)
         /\ visited' = Append(visited, d)
         /\ considered' = considered \o cands
         /\ selected' = selected \o Included(fs, base_dir, cands, out_path)
  /\ UNCHANGED <<byteorder, fs, clock, pc, args, base_dir, out_path, idx, count, before, runs,
                 probeVars>>

\* lines 248-249
WalkDone ==
  /\ pc = "walk"
  /\ todo = <<>>
  /\ selected' = SortSelected(base_dir, selected)
  /\ pc' = "write"
  /\ UNCHANGED <<byteorder, fs, clock, args, base_dir, out_path, todo, visited, considered,
                 idx, count, before, runs, probeVars>>

-----------------------------------------------------------------------------
(* write_concat *)

Prefixes(p) == {SubSeq(p, 1, k) : k \in 1..Len(p)}

\* Path.mkdir(parents=True, exist_ok=True) succeeds: nothing on the way is
\* something else than a directory
CanMkdir(f, dir) == \A d \in Prefixes(dir) : d \in DOMAIN f => is_dir(f, d)

Mkdir(f, dir) == [d \in Prefixes(dir) \ DOMAIN f |-> Dir] @@ f

\* open(out_path, "w") succeeds
CanCreate(f, out) == out \notin DOMAIN f \/ f[out].type = "file"

\* the file after open(out_path, mode): "w" truncates
Opened(f, out, mode) ==
  IF out \in DOMAIN f
    THEN [f[out] EXCEPT !.content = IF mode = "w" THEN <<>> ELSE f[out].content]
    ELSE File(<<>>)

\* lines 259-264
AbsPath(f, p) == IF resolve(f, p) = ResolveFail THEN p ELSE resolve(f, p)

\* lines 269-272
TocLines(f, files) ==
  <<Line("TOC", <<>>, Len(files), 11 + Digits(Len(files)) + 17)>>
  \o [i \in 1..Len(files) |->
        Line("ENTRY", PathStr(AbsPath(f, files[i])), i,
             Digits(i) + 2 + Len(PathStr(AbsPath(f, files[i]))) + 1)]
  \o <<Line("ENDTOC", <<>>, 0, 21)>>

Write(f, out, lines) == [f EXCEPT ![out].content = f[out].content \o lines]

\* lines 258-272: the directory, the output file and the table of contents
WriteOpen ==
  /\ pc = "write"
  /\ LET parent == SubSeq(out_path, 1, Len(out_path) - 1)
         made == Mkdir(fs, parent)
     IN  IF ~CanMkdir(fs, parent)
           THEN /\ pc' = "aborted"
                /\ fs' = fs
                /\ idx' = 0
           ELSE IF ~CanCreate(made, out_path)
           THEN /\ pc' = "aborted"
                /\ fs' = made
                /\ idx' = 0
           ELSE /\ pc' = "body"
                /\ fs' = Write((out_path :> Opened(made, out_path, "w")) @@ made, out_path,
                               TocLines(fs, selected))
                /\ idx' = 1
  /\ count' = 0
  /\ UNCHANGED <<byteorder, clock, args, base_dir, out_path, todo, visited, considered,
                 selected, before, runs, probeVars>>

BeginLine(rel) == Line("BEGIN", rel, 0, 13 + Len(rel) + 7)

\* line 293 writing the marker of line 280
EndLine_AsBegin(rel) == BeginLine(rel)

EndLine(rel) == Line("END", rel, 0, 11 + Len(rel) + 7)

Separator == Line("SEP", <<>>, 0, 1)

\* line 276
EncodingFor(f, p) == IF pick_encoding(f, p) = None THEN "utf-8" ELSE pick_encoding(f, p)

\* lines 282-290: what the two open() of one file raise and write.  A file
\* of the trees explored is read in one chunk, so that a decode error is
\* raised before any line is written.
Raises(f, p) ==
  \/ ~CanOpen(f, p)
  \/ Transcode(EncodingFor(f, p), ContentOf(f, p)) = BOMError

BodyOf(f, p) ==
  IF Transcode(EncodingFor(f, p), ContentOf(f, p)) = DecodeError
    THEN Transcode("latin-1", ContentOf(f, p))
    ELSE Transcode(EncodingFor(f, p), ContentOf(f, p))

\* lines 275-296: one iteration of the loop over the files
WriteFile ==
  /\ pc = "body"
  /\ idx <= Len(selected)
  /\ LET p == selected[idx]
         rel == relpath(base_dir, p)
         header == IF args.no_headers THEN <<>> ELSE <<BeginLine(rel)>>
         footer == IF args.no_headers THEN <<>> ELSE <<EndLine(rel)>>
     IN  IF Raises(fs, p)
           THEN /\ fs' = Write(fs, out_path, header)
                /\ pc' = "aborted"
                /\ UNCHANGED <<idx, count>>
           ELSE /\ fs' = Write(fs, out_path, header \o BodyOf(fs, p) \o footer \o <<Separator>>)
                /\ idx' = idx + 1
                /\ count' = count + 1
                /\ pc' = pc
  /\ UNCHANGED <<byteorder, clock, args, base_dir, out_path, todo, visited, considered,
                 selected, before, runs, probeVars>>

\* line 298, and line 323 of run_single_output
WriteDone ==
  /\ pc = "body"
  /\ idx > Len(selected)
  /\ pc' = "done"
  /\ UNCHANGED <<byteorder, fs, clock, args, base_dir, out_path, todo, visited, considered,
                 selected, idx, count, before, runs, probeVars>>

Next == StartRun \/ WalkStep \/ WalkDone \/ WriteOpen \/ WriteFile \/ WriteDone

Spec == Init /\ [][Next]_vars

-----------------------------------------------------------------------------
(* The Encoding Detector on its own: pick_encoding, is_probably_text and   *)
(* the last test of should_include_file, applied to one file /w/<name>     *)
(* whose bytes range over the samples below.                               *)

\* NUL, a control byte, ASCII; continuation bytes (0x80 defined and 0x81
\* undefined in cp1252, 0xA0, 0xBB, 0xBF); lead bytes 0xD8 and 0xDC (also the
\* high bytes of UTF-16 surrogates), 0xE0, 0xED, 0xEF (EF BB BF is the UTF-8
\* signature); 0xFE and 0xFF of the UTF-16 byte order marks
SampleBytes == {0, 1, 65, 128, 129, 160, 187, 191, 216, 220, 224, 237, 239, 254, 255}

Samples == UNION {[1..n -> SampleBytes] : n \in 0..MaxLen}

ProbeNames == {NOTES, A_TS, LICENSE}

ProbePath == <<W, probe.name>>

ProbeFS(pr) ==
  (<<W>> :> Dir) @@ (<<W, pr.name>> :> [File(Bytes(pr.bytes)) EXCEPT !.canOpen = pr.readable])

Str(b) == IF b THEN "True" ELSE "False"

InitEnc ==
  /\ byteorder \in {"little", "big"}
  /\ probe \in [name : ProbeNames, bytes : Samples, readable : BOOLEAN]
  /\ fs = ProbeFS(probe)
  /\ base_dir = <<W>>
  /\ Idle
  /\ text = "n/a" /\ enc = "n/a" /\ incl = "n/a" /\ dpc = "start"

\* pick_encoding(path), with the verdict of is_probably_text on its sample
Detect ==
  /\ dpc = "start"
  /\ text' = IF CanOpen(fs, ProbePath)
               THEN Str(is_probably_text(Read(ContentOf(fs, ProbePath), SAMPLE_SIZE)))
               ELSE "n/a"
  /\ enc' = pick_encoding(fs, ProbePath)
  /\ dpc' = "picked"
  /\ UNCHANGED <<byteorder, runVars, base_dir, probe, incl>>

\* should_include_file(path) under the default rule set
Select ==
  /\ dpc = "picked"
  /\ incl' = Str(should_include_file(fs, base_dir, ProbePath, DEFAULT_EXTS, <<>>, OUT_EXCLUDES,
                                     DEFAULT_MAX_SIZE, <<W, D_TXT>>))
  /\ dpc' = "done"
  /\ UNCHANGED <<byteorder, runVars, base_dir, probe, text, enc>>

NextEnc == Detect \/ Select

SpecEnc == InitEnc /\ [][NextEnc]_vars

-----------------------------------------------------------------------------
(* Properties *)

\* the lines of the output of the current run, once it has been opened
OutLines == fs[out_path].content

OutputOpened == idx >= 1

\* positions in the output of the lines of kind k, in order
LinesOf(k) == SelectSeq([i \in 1..Len(OutLines) |-> i], LAMBDA i : OutLines[i].k = k)

DirPart(p) == SubSeq(p, 1, Len(p) - 1)

\* C1, as stated: walk_select returns no file that lies beneath a directory
\* named in DEFAULT_EXCLUDE_DIRS, at any depth and whatever the root is.
C1_NoFileBeneathExcludedName ==
  \A i \in 1..Len(selected) :
    \A j \in 1..Len(DirPart(selected[i])) : selected[i][j] \notin DEFAULT_EXCLUDE_DIRS

\* C1, amended: walk_select returns no file that lies beneath a directory
\* named in DEFAULT_EXCLUDE_DIRS located below the root, at any depth; the
\* names of the root and of its ancestors are not looked at.
C1_NoFileBeneathExcludedBelowRoot ==
  \A i \in 1..Len(selected) :
    /\ IsPrefix(base_dir, selected[i])
    /\ \A j \in (Len(base_dir) + 1)..Len(DirPart(selected[i])) :
         selected[i][j] \notin DEFAULT_EXCLUDE_DIRS

\* the walk from /w returned app/e.TS and neither bin/c.ts nor app/bin/f.ts,
\* which are plain files with an allowed extension
C1_Witness ==
  /\ pc = "write"
  /\ base_dir = <<W>>
  /\ <<W, APP, E_TS>> \in Range(selected)
  /\ fs[<<W, BIN, C_TS>>] = PlainFile /\ <<W, BIN, C_TS>> \notin Range(selected)
  /\ fs[<<W, APP, BIN, F_TS>>] = PlainFile /\ <<W, APP, BIN, F_TS>> \notin Range(selected)

\* C2, as stated, for an output that write_concat completed: the count of the
\* TOC header is the number of BEGIN markers and of END markers, and the
\* i-th file of the TOC has the i-th BEGIN/END section, and no other.
C2_TocMatchesSections ==
  pc = "done" =>
    /\ Len(LinesOf("BEGIN")) = OutLines[1].num
    /\ Len(LinesOf("END")) = OutLines[1].num
    /\ \A i \in 1..Len(selected) :
         Cardinality({j \in 1..Len(LinesOf("BEGIN")) :
                        OutLines[LinesOf("BEGIN")[j]].rel = relpath(base_dir, selected[i])}) = 1

\* C2, amended: the TOC lists the files in order and its header counts them.
\* When the BEGIN/END headers are not suppressed, the sections follow in the
\* order of the TOC, one per listed file and never two for one entry, each
\* BEGIN closed by its END before the next BEGIN; once write_concat has
\* returned there are as many BEGIN markers as the TOC header counts, while
\* an output left by a call that raised ends with the BEGIN marker of the
\* file that failed.  With --no-headers there is no BEGIN or END marker.
C2_SectionsFollowToc ==
  (OutputOpened /\ pc \in {"body", "done", "aborted"}) =>
    LET begins == LinesOf("BEGIN")
        ends == LinesOf("END")
        entries == LinesOf("ENTRY")
    IN  /\ OutLines[1].k = "TOC"
        /\ OutLines[1].num = Len(selected)
        /\ Len(entries) = Len(selected)
        /\ \A i \in 1..Len(entries) :
             /\ OutLines[entries[i]].num = i
             /\ OutLines[entries[i]].rel = PathStr(AbsPath(fs, selected[i]))
        /\ IF args.no_headers
             THEN begins = <<>> /\ ends = <<>>
             ELSE /\ Len(begins) <= OutLines[1].num
                  /\ Len(ends) = count
                  /\ Len(begins) = IF pc = "aborted" THEN count + 1 ELSE count
                  /\ pc = "done" => Len(begins) = OutLines[1].num
                  /\ \A i \in 1..Len(begins) :
                       /\ OutLines[begins[i]].rel = relpath(base_dir, selected[i])
                       /\ begins[i] > entries[Len(entries)]
                       /\ i <= Len(ends) => /\ OutLines[ends[i]].rel = OutLines[begins[i]].rel
                                            /\ begins[i] < ends[i]
                       /\ (i > 1) => ends[i - 1] < begins[i]

\* a completed dump with headers of at least two files
C2_Witness ==
  /\ pc = "done"
  /\ ~args.no_headers
  /\ Len(selected) >= 2
  /\ Len(LinesOf("BEGIN")) = Len(selected)
  /\ Len(LinesOf("END")) = Len(selected)

\* C3: a file of the list that cannot be opened, read or decoded never
\* aborts the run; a run aborts only on creating the output directory or on
\* opening the output file, that is before the output is opened.
C3_OnlyOutputFailuresAbort == pc = "aborted" => ~OutputOpened

\* C4: walk_select never returns a path that resolves to the output path, so
\* that no dump lists itself, whatever was written by earlier runs; and a
\* candidate whose resolution fails is handed to should_include_file like
\* any file that is not the output.
C4_OutputNeverSelected ==
  /\ \A i \in 1..Len(selected) : resolve(fs, selected[i]) # out_path
  /\ (OutputOpened /\ pc \in {"body", "done", "aborted"}) =>
       \A i \in 1..Len(OutLines) :
         OutLines[i].k = "ENTRY" => OutLines[i].rel # PathStr(out_path)
  /\ \A d \in Range(visited) : \A c \in Range(WalkFiles(fs, d)) :
       resolve(fs, c) = ResolveFail => c \in Range(considered)

\* second run on the same output name: the previous dump lies in the root,
\* the link to it and the dump itself were skipped, the looping link lp was not
C4_Witness ==
  /\ pc = "write"
  /\ runs = 2
  /\ before.type = "file"
  /\ out_path = <<W, D_TXT>>
  /\ base_dir = <<W>>
  /\ selected # <<>>
  /\ <<W, LP>> \in Range(considered)
  /\ <<W, LN_TS>> \notin Range(considered)
  /\ <<W, D_TXT>> \notin Range(considered)

\* C5: a run does not overwrite the output file: what was in the file at the
\* output path before the run is still in it once the run has opened it.
C5_PreviousContentKept ==
  (OutputOpened /\ before.type = "file") => IsPrefix(before.content, OutLines)

\* C6: with a non-empty list of include globs, the root-relative path of
\* every file returned by walk_select matches one of them.
C6_SelectedMatchInclude ==
  include_globs # <<>> =>
    \A i \in 1..Len(selected) :
      \E g \in 1..Len(include_globs) : fnmatch(relpath(base_dir, selected[i]), include_globs[g])

\* --include "app/*" from /w: app/e.TS returned, a.ts (plain, allowed
\* extension, handed to should_include_file) not returned
C6_Witness ==
  /\ pc = "write"
  /\ include_globs # <<>>
  /\ base_dir = <<W>>
  /\ <<W, APP, E_TS>> \in Range(selected)
  /\ fs[<<W, A_TS>>] = PlainFile
  /\ <<W, A_TS>> \in Range(considered)
  /\ <<W, A_TS>> \notin Range(selected)

\* C7: no file returned by walk_select is larger than --max-size, nor is one
\* whose size could not be read.
C7_SelectedWithinMaxSize ==
  \A i \in 1..Len(selected) :
    /\ is_file(fs, selected[i])
    /\ ~fs[resolve(fs, selected[i])].vanishes
    /\ Size(ContentOf(fs, selected[i])) <= args.max_size

\* --max-size 2: a three-byte file with an allowed extension was handed to
\* should_include_file and not returned, while others were
C7_Witness ==
  /\ pc = "write"
  /\ args.max_size = 2
  /\ selected # <<>>
  /\ \E p \in Range(considered) :
       /\ is_file(fs, p)
       /\ Size(ContentOf(fs, p)) = 3
       /\ Lower(Suffix(p)) \in allowed_exts
       /\ p \notin Range(selected)

Detected == dpc \in {"picked", "done"} /\ probe.readable

\* C8, as stated: for every sample that is valid UTF-8, is_probably_text
\* returns True and pick_encoding returns "utf-8".
C8_ValidUtf8IsText ==
  (Detected /\ Utf8Decode(probe.bytes) # Fail) => (text = "True" /\ enc = "utf-8")

\* C8, amended: for every sample that is valid UTF-8 and holds no null byte,
\* is_probably_text returns True and pick_encoding returns "utf-8".
C8_ValidUtf8WithoutNulIsText ==
  (Detected /\ Utf8Decode(probe.bytes) # Fail /\ 0 \notin Range(probe.bytes))
    => (text = "True" /\ enc = "utf-8")

\* a sample with a multi-byte character, reported as UTF-8 text
C8_Witness ==
  /\ dpc = "done"
  /\ probe.readable
  /\ Utf8Decode(probe.bytes) # Fail
  /\ \E i \in 1..Len(probe.bytes) : probe.bytes[i] >= 128
  /\ text = "True"
  /\ enc = "utf-8"

\* C9: a file whose sample holds a null byte is binary: is_probably_text
\* returns False, pick_encoding returns None, and should_include_file
\* accepts the file only for its extension or its name.
C9_NulIsBinary ==
  (dpc = "done" /\ probe.readable /\ 0 \in Range(probe.bytes)) =>
    /\ text = "False"
    /\ enc = None
    /\ incl = "True" => \/ Lower(Suffix(ProbePath)) \in DEFAULT_EXTS
                        \/ probe.name \in NAMES_WITHOUT_EXT

\* a file without extension, a NUL after other bytes: not selected
C9_Witness ==
  /\ dpc = "done"
  /\ probe.readable
  /\ probe.name = NOTES
  /\ Len(probe.bytes) >= 2
  /\ probe.bytes[1] # 0
  /\ 0 \in Range(probe.bytes)
  /\ enc = None
  /\ incl = "False"

\* C10: pick_encoding returns None exactly when the file cannot be read or
\* its sample is binary; otherwise it returns the first of utf-8, utf-8-sig,
\* utf-16, cp1252, latin-1 that decodes the sample.
C10_FirstDecodingEncoding ==
  dpc = "done" =>
    /\ enc = None <=> (~probe.readable \/ text = "False")
    /\ enc # None =>
         \E i \in 1..Len(ENCODINGS) :
           /\ enc = ENCODINGS[i]
           /\ DecodeBytes(ENCODINGS[i], probe.bytes) # Fail
           /\ \A j \in 1..(i - 1) : DecodeBytes(ENCODINGS[j], probe.bytes) = Fail

\* a text sample that only the last encoding decodes
C10_Witness ==
  /\ dpc = "done"
  /\ probe.readable
  /\ text = "True"
  /\ enc = "latin-1"
  /\ DecodeBytes("cp1252", probe.bytes) = Fail
  /\ DecodeBytes("utf-16", probe.bytes) = Fail

====
